---- MODULE Spec2Model ----
(***************************************************************************)
(* A model of the MetaDV generator (src/src/metadv): MetaDVGenerator.read,  *)
(* .validate, ._build_validation_context and .generate, the validation      *)
(* engine, and the stage, hub, link and satellite generators.               *)
(*                                                                          *)
(* Python values are modelled as follows.                                   *)
(*   dict            a function whose DOMAIN is the set of keys present;    *)
(*                   d.get(k) is guarded by Has(d, k)                       *)
(*   ordered dict    (derived_columns, hashed_columns, ...) a sequence of   *)
(*                   [k, v] entries in insertion order                      *)
(*   list            a sequence                                             *)
(*   str-or-list     [kind |-> "str", v |-> s] or [kind |-> "list", v |-> l]*)
(*   f-strings       string concatenation, ToString for integers            *)
(***************************************************************************)
EXTENDS Integers, Sequences, FiniteSets, TLC

(***************************************************************************)
(* Generic helpers for dicts, lists and ordered dicts.                      *)
(***************************************************************************)
Has(d, k) == k \in DOMAIN d

EmptyDict == <<>>

Range(s) == {s[i] : i \in DOMAIN s}

\* a for loop: acc = Op(acc, x) for x in s
RECURSIVE Fold(_, _, _)
Fold(Op(_, _), acc, s) ==
    IF s = <<>> THEN acc ELSE Fold(Op, Op(acc, Head(s)), Tail(s))

RECURSIVE Flatten(_)
Flatten(ss) == IF ss = <<>> THEN <<>> ELSE Head(ss) \o Flatten(Tail(ss))

\* list.count(x)
Count(s, x) == Cardinality({i \in DOMAIN s : s[i] = x})

\* [f(x) for x in s if P(x)]
SelectSeqMap(s, P(_), F(_)) ==
    LET picked == SelectSeq(s, P) IN [i \in DOMAIN picked |-> F(picked[i])]

\* ordered dict: k in d
DictHas(d, k) == \E i \in DOMAIN d : d[i].k = k

DictKeys(d) == [i \in DOMAIN d |-> d[i].k]

\* ordered dict: d[k]
DictGet(d, k) == d[CHOOSE i \in DOMAIN d : d[i].k = k].v

\* ordered dict: d[k] = v (an existing key keeps its position)
DictSet(d, k, v) ==
    IF DictHas(d, k)
    THEN [i \in DOMAIN d |-> IF d[i].k = k THEN [k |-> k, v |-> v] ELSE d[i]]
    ELSE Append(d, [k |-> k, v |-> v])

\* if k not in d: d[k] = []
\* d[k].append(x)
DictAppend(d, k, x) ==
    IF DictHas(d, k)
    THEN [i \in DOMAIN d |-> IF d[i].k = k THEN [k |-> k, v |-> Append(d[i].v, x)] ELSE d[i]]
    ELSE Append(d, [k |-> k, v |-> <<x>>])

\* if k not in d: d[k] = []
\* if x not in d[k]: d[k].append(x)
DictAppendIfAbsent(d, k, x) ==
    IF DictHas(d, k) /\ x \in Range(DictGet(d, k)) THEN d ELSE DictAppend(d, k, x)

\* the members of s in order of first occurrence
RECURSIVE Unique(_)
Unique(s) ==
    IF s = <<>> THEN <<>>
    ELSE LET front == Unique(SubSeq(s, 1, Len(s) - 1))
             last == s[Len(s)]
         IN IF last \in Range(front) THEN front ELSE Append(front, last)

\* "sep".join(s)
RECURSIVE Join(_, _)
Join(sep, s) ==
    IF s = <<>> THEN ""
    ELSE IF Len(s) = 1 THEN s[1]
    ELSE s[1] \o sep \o Join(sep, Tail(s))

(***************************************************************************)
(* Accessors of a connection dict, as the consumers read it:               *)
(* target_conn.get('target_name') and friends, with Python truthiness.      *)
(***************************************************************************)
conn_target_name(c) == IF Has(c, "target_name") THEN c.target_name ELSE ""
conn_entity_name(c) == IF Has(c, "entity_name") THEN c.entity_name ELSE ""
conn_attribute_of(c) == IF Has(c, "attribute_of") THEN c.attribute_of ELSE ""
\* attr.get('multiactive_key') is True
conn_multiactive(c) == Has(c, "multiactive_key") /\ c.multiactive_key = TRUE

(***************************************************************************)
(* MetaDVGenerator.read: the connection normalizer.                         *)
(***************************************************************************)
\* str-or-list to list (isinstance(x, str) -> [x])
as_list(x) == IF x.kind = "str" THEN <<x.v>> ELSE x.v

\* a normalizer that forgets the slot of an oldest-format entity key
old_entity_entry_without_index(meta, en) ==
    IF Has(meta, "entity_relation") /\ meta.entity_relation # ""
    THEN [target_name |-> meta.entity_relation, entity_name |-> en]
    ELSE [target_name |-> en]

\* one EntityKey entry of the oldest format, generator.py 160-168
old_entity_entry(meta, en) ==
    LET base == IF Has(meta, "entity_relation") /\ meta.entity_relation # ""
                THEN [target_name |-> meta.entity_relation, entity_name |-> en]
                ELSE [target_name |-> en]
    IN IF Has(meta, "entity_name_index")
       THEN base @@ ("entity_index" :> meta.entity_name_index)
       ELSE base

\* one Attribute entry of the oldest format, generator.py 181-185
old_attribute_entry(meta, attr_target) ==
    LET base == [attribute_of |-> attr_target]
        withTA == IF Has(meta, "target_attribute") /\ meta.target_attribute # ""
                  THEN base @@ ("target_attribute" :> meta.target_attribute)
                  ELSE base
    IN IF Has(meta, "multiactive_key") /\ meta.multiactive_key = TRUE
       THEN withTA @@ ("multiactive_key" :> TRUE)
       ELSE withTA

\* the oldest format: entity entries first, then attribute entries
old_format_target(meta) ==
    LET ens == IF Has(meta, "entity_name") THEN as_list(meta.entity_name) ELSE <<>>
        ats == IF Has(meta, "attribute_of") THEN as_list(meta.attribute_of) ELSE <<>>
    IN [i \in DOMAIN ens |-> old_entity_entry(meta, ens[i])]
       \o [i \in DOMAIN ats |-> old_attribute_entry(meta, ats[i])]

\* a normalizer that appends what the later annotation sources hold
read_target_merged(column) ==
    LET meta == IF Has(column, "meta") THEN column.meta ELSE EmptyDict
    IN (IF Has(column, "target") THEN column.target ELSE <<>>)
       \o (IF Has(meta, "target") THEN meta.target ELSE <<>>)
       \o old_format_target(meta)

\* the target list of one raw column: unified field, else meta.target, else
\* the oldest fields.  None ("target if target else None") is modelled as the
\* empty list: the code maps every falsy list to None and every consumer
\* tests col.get('target') for truthiness only.
read_target(column) ==
    IF Has(column, "target") THEN column.target
    ELSE LET meta == IF Has(column, "meta") THEN column.meta ELSE EmptyDict
         IN IF Has(meta, "target") THEN meta.target ELSE old_format_target(meta)

\* col_data of one column
read_column(source_name, column) ==
    [source |-> source_name, column |-> column.name, target |-> read_target(column)]

\* source_columns: every column of every source, in document order
read_source_columns(sources) ==
    Flatten([s \in DOMAIN sources |->
        [c \in DOMAIN sources[s].columns |->
            read_column(sources[s].name, sources[s].columns[c])]])

\* a read() that takes a document it cannot parse for an empty one
read_lenient(file) ==
    IF file.state = "no_project"
    THEN [success |-> FALSE, error |-> "Project path does not exist"]
    ELSE IF file.state = "missing"
    THEN [success |-> FALSE, error |-> "metadv.yml not found. Please initialize MetaDV first."]
    ELSE IF file.state = "malformed"
    THEN [success |-> TRUE, data |-> [targets |-> <<>>, source_columns |-> <<>>]]
    ELSE [success |-> TRUE,
          data |-> [targets |-> file.targets,
                    source_columns |-> read_source_columns(file.sources)]]

\* read(): (success, error, data)
read(file) ==
    IF file.state = "no_project"
    THEN [success |-> FALSE, error |-> "Project path does not exist"]
    ELSE IF file.state = "missing"
    THEN [success |-> FALSE, error |-> "metadv.yml not found. Please initialize MetaDV first."]
    ELSE IF file.state = "malformed"
    THEN [success |-> FALSE, error |-> "yaml error"]
    ELSE [success |-> TRUE,
          data |-> [targets |-> file.targets,
                    source_columns |-> read_source_columns(file.sources)]]

(***************************************************************************)
(* MetaDVGenerator.generate, lines 411-442: the structures handed to the    *)
(* four generators.                                                         *)
(***************************************************************************)
\* targets_by_name = {t["name"]: t for t in data.targets}
targets_by_name_step(acc, t) == DictSet(acc, t.name, t)

build_targets_by_name(targets) == Fold(targets_by_name_step, <<>>, targets)

\* targets_by_name.get(name, {})
target_info_of(targets_by_name, name) ==
    IF DictHas(targets_by_name, name) THEN DictGet(targets_by_name, name) ELSE EmptyDict

\* target_info.get('type'), without a default
target_type_of_no_default(target_info) ==
    IF Has(target_info, "type") THEN target_info.type ELSE "none"

\* target_info.get('type', 'entity')
target_type_of(target_info) ==
    IF Has(target_info, "type") THEN target_info.type ELSE "entity"

\* target_info.get('entities', [])
target_entities_of(target_info) ==
    IF Has(target_info, "entities") THEN target_info.entities ELSE <<>>

\* connected_targets fed by the key connections only
connected_names_keys_only(c) ==
    ({conn_target_name(c), conn_entity_name(c)}) \ {""}

\* the names one connection adds to connected_targets, lines 430-442
connected_names(c) ==
    ({conn_target_name(c), conn_entity_name(c), conn_attribute_of(c)}) \ {""}

connected_of_column(col) == UNION {connected_names(col.target[i]) : i \in DOMAIN col.target}

\* one iteration of "for col in data.source_columns", lines 416-442
source_models_step(acc, col) ==
    LET old == IF DictHas(acc, col.source)
               THEN DictGet(acc, col.source)
               ELSE [source |-> col.source, columns |-> <<>>, connected_targets |-> {}]
    IN DictSet(acc, col.source,
               [source |-> col.source,
                columns |-> Append(old.columns, col),
                connected_targets |-> old.connected_targets \cup connected_of_column(col)])

build_source_models(source_columns) == Fold(source_models_step, <<>>, source_columns)

\* the (column, connection) pairs of a column list, in the order of the nested
\* loops "for col in columns: for target_conn in col['target']"
column_connections(columns) ==
    Flatten([i \in DOMAIN columns |->
        [j \in DOMAIN columns[i].target |->
            [column |-> columns[i].column, conn |-> columns[i].target[j]]]])

(***************************************************************************)
(* BaseGenerator                                                            *)
(***************************************************************************)
\* _get_stage_ref
get_stage_ref(source) == "stg_" \o source

\* one stage reference per source_ref, repeats kept
get_stage_models_per_ref(source_refs) ==
    [i \in DOMAIN source_refs |-> get_stage_ref(source_refs[i].source)]

\* _get_unique_stage_models
get_unique_stage_models(source_refs) ==
    Unique([i \in DOMAIN source_refs |-> get_stage_ref(source_refs[i].source)])

(***************************************************************************)
(* StageGenerator                                                           *)
(***************************************************************************)
\* a key name numbered from the 0-based slot itself
stage_key_name_zero_based(target_name, entity_name, entities, c) ==
    IF Count(entities, entity_name) > 1 /\ Has(c, "entity_index")
    THEN target_name \o "_" \o entity_name \o "_" \o ToString(c.entity_index)
    ELSE target_name \o "_" \o entity_name

\* the key name of a relation connection, stage.py 91-99
stage_key_name(target_name, entity_name, entities, c) ==
    IF Count(entities, entity_name) > 1 /\ Has(c, "entity_index")
    THEN target_name \o "_" \o entity_name \o "_" \o ToString(c.entity_index + 1)
    ELSE target_name \o "_" \o entity_name

\* an entity branch that keeps the alias of the first column of a key
stage_entity_branch_first_alias(acc, target_name, col_name) ==
    [acc EXCEPT !.derived_columns = IF DictHas(@, target_name \o "_id") THEN @
                                    ELSE DictSet(@, target_name \o "_id", col_name),
                !.hashed_columns = DictAppend(@, target_name \o "_hk", col_name)]

\* the entity branch, stage.py 77-82
stage_entity_branch(acc, target_name, col_name) ==
    [acc EXCEPT !.derived_columns = DictSet(@, target_name \o "_id", col_name),
                !.hashed_columns = DictAppend(@, target_name \o "_hk", col_name)]

\* a relation branch that takes the role entity without looking it up
stage_relation_branch_any_role(acc, target_name, target_info, c, col_name) ==
    LET key_name == target_name \o "_" \o conn_entity_name(c)
    IN [acc EXCEPT
          !.derived_columns = DictSet(@, key_name \o "_id", col_name),
          !.hashed_columns = DictAppend(@, key_name \o "_hk", col_name),
          !.relation_entity_columns = DictAppend(@, target_name, col_name)]

\* the relation branch, stage.py 84-109
stage_relation_branch(acc, target_name, target_info, c, col_name) ==
    LET entities == target_entities_of(target_info)
        entity_name == conn_entity_name(c)
    IN IF entity_name # "" /\ entity_name \in Range(entities)
       THEN LET key_name == stage_key_name(target_name, entity_name, entities, c)
            IN [acc EXCEPT
                  !.derived_columns = DictSet(@, key_name \o "_id", col_name),
                  !.hashed_columns = DictAppend(@, key_name \o "_hk", col_name),
                  !.relation_entity_columns = DictAppend(@, target_name, col_name)]
       ELSE acc

\* one iteration of the first loop of render_sql, stage.py 66-109
stage_key_step(targets_by_name, acc, cc) ==
    LET target_name == conn_target_name(cc.conn)
        target_info == target_info_of(targets_by_name, target_name)
        target_type == target_type_of(target_info)
    IN IF target_name = "" THEN acc
       ELSE IF target_type = "entity"
       THEN stage_entity_branch(acc, target_name, cc.column)
       ELSE IF target_type = "relation"
       THEN stage_relation_branch(acc, target_name, target_info, cc.conn, cc.column)
       ELSE acc

\* stage.py 112-119: {relation}_hk combines the relation's entity columns
stage_relation_hk(hashed_columns, rel) ==
    LET key == rel.k \o "_hk"
        ensured == IF DictHas(hashed_columns, key) THEN hashed_columns
                   ELSE Append(hashed_columns, [k |-> key, v |-> <<>>])
        add(h, col) == DictAppendIfAbsent(h, key, col)
    IN Fold(add, ensured, rel.v)

\* a hashdiff group named after the column instead of the attribute target
stage_hashdiff_step_by_column(acc, cc) ==
    IF conn_attribute_of(cc.conn) # ""
    THEN DictAppend(acc, cc.column, cc.column)
    ELSE acc

\* stage.py 123-131
stage_hashdiff_step(acc, cc) ==
    IF conn_attribute_of(cc.conn) # ""
    THEN DictAppend(acc, conn_attribute_of(cc.conn), cc.column)
    ELSE acc

\* StageGenerator.render_sql: the context handed to stage.sql
StageGenerator_render_sql(source_name, columns, targets_by_name) ==
    LET ccs == column_connections(columns)
        step(acc, cc) == stage_key_step(targets_by_name, acc, cc)
        keys == Fold(step, [derived_columns |-> <<>>, hashed_columns |-> <<>>,
                            relation_entity_columns |-> <<>>], ccs)
    IN [template |-> "stage.sql",
        source_name |-> source_name,
        derived_columns |-> keys.derived_columns,
        hashed_columns |-> Fold(stage_relation_hk, keys.hashed_columns,
                                keys.relation_entity_columns),
        hashdiff_columns |-> Fold(stage_hashdiff_step, <<>>, ccs)]

\* StageGenerator.generate: the files written, in order
StageGenerator_generate(source_models, targets_by_name) ==
    LET connected(e) == e.v.connected_targets # {}
        file(e) == [path |-> "stage/stg_" \o e.k \o ".sql",
                    content |-> StageGenerator_render_sql(e.k, e.v.columns, targets_by_name)]
    IN SelectSeqMap(source_models, connected, file)

(***************************************************************************)
(* HubGenerator                                                             *)
(***************************************************************************)
\* hub.py 32-44: one source_ref per column with a connection naming the entity
hub_source_refs(target_name, source_models) ==
    LET names(col) == {conn_target_name(col.target[j]) : j \in DOMAIN col.target}
        hit(col) == Has(col.target, 1) /\ target_name \in names(col)
        ref(col) == [source |-> col.source, column |-> col.column]
    IN Flatten([s \in DOMAIN source_models |->
                  SelectSeqMap(source_models[s].v.columns, hit, ref)])

\* HubGenerator.render_sql
HubGenerator_render_sql(entity_name, source_refs) ==
    [template |-> "hub.sql",
     entity_name |-> entity_name,
     source_models |-> get_unique_stage_models(source_refs)]

\* HubGenerator.generate
HubGenerator_generate(source_models, targets_by_name) ==
    LET emitted(t) == /\ target_type_of(t.v) = "entity"
                      /\ hub_source_refs(t.k, source_models) # <<>>
        file(t) == [path |-> "hub/hub_" \o t.k \o ".sql",
                    content |-> HubGenerator_render_sql(t.k, hub_source_refs(t.k, source_models))]
    IN SelectSeqMap(targets_by_name, emitted, file)

(***************************************************************************)
(* LinkGenerator                                                            *)
(***************************************************************************)
\* a grouping that takes every role connection, whatever relation it names
link_entity_columns_any_relation(relation_name, columns) ==
    LET step(acc, cc) ==
            IF conn_entity_name(cc.conn) # ""
            THEN DictAppend(acc, conn_entity_name(cc.conn), cc.column)
            ELSE acc
    IN Fold(step, <<>>, column_connections(columns))

\* _find_link_sources, the inner loops for one source: entity_columns
link_entity_columns(relation_name, columns) ==
    LET step(acc, cc) ==
            IF conn_target_name(cc.conn) = relation_name /\ conn_entity_name(cc.conn) # ""
            THEN DictAppend(acc, conn_entity_name(cc.conn), cc.column)
            ELSE acc
    IN Fold(step, <<>>, column_connections(columns))

\* _find_link_sources
find_link_sources(relation_name, entities, source_models) ==
    LET connected(e) == link_entity_columns(relation_name, e.v.columns) # <<>>
        ref(e) == [source |-> e.k,
                   entity_columns |-> link_entity_columns(relation_name, e.v.columns)]
    IN SelectSeqMap(source_models, connected, ref)

\* the foreign key of role slot i, link.py 100-107
link_fk_column(link_name, entities, i) ==
    IF Len(entities) # Cardinality(Range(entities))
    THEN link_name \o "_" \o entities[i] \o "_"
         \o ToString(Count(SubSeq(entities, 1, i), entities[i])) \o "_hk"
    ELSE link_name \o "_" \o entities[i] \o "_hk"

\* LinkGenerator.render_sql
LinkGenerator_render_sql(link_name, entities, source_refs) ==
    [template |-> "link.sql",
     link_name |-> link_name,
     source_models |-> get_unique_stage_models(source_refs),
     fk_columns |-> [i \in DOMAIN entities |-> link_fk_column(link_name, entities, i)]]

\* LinkGenerator.generate
LinkGenerator_generate(source_models, targets_by_name) ==
    LET emitted(t) == /\ Has(t.v, "type") /\ t.v.type = "relation"
                      /\ target_entities_of(t.v) # <<>>
                      /\ find_link_sources(t.k, target_entities_of(t.v), source_models) # <<>>
        file(t) == [path |-> "link/link_" \o Join("_", target_entities_of(t.v)) \o ".sql",
                    content |-> LinkGenerator_render_sql(t.k, target_entities_of(t.v),
                                   find_link_sources(t.k, target_entities_of(t.v), source_models))]
    IN SelectSeqMap(targets_by_name, emitted, file)

(***************************************************************************)
(* SatGenerator                                                             *)
(***************************************************************************)
\* sat.py 30-45: target_columns of one source
sat_target_columns(columns) ==
    LET step(acc, cc) ==
            IF conn_attribute_of(cc.conn) # ""
            THEN DictAppend(acc, conn_attribute_of(cc.conn),
                            [column |-> cc.column, multiactive_key |-> conn_multiactive(cc.conn)])
            ELSE acc
    IN Fold(step, <<>>, column_connections(columns))

\* sat.py 46-56: entity_columns of one source
sat_entity_columns(columns) ==
    LET entity(c) == IF conn_entity_name(c) # "" THEN conn_entity_name(c)
                     ELSE conn_target_name(c)
        step(acc, cc) ==
            IF conn_attribute_of(cc.conn) = "" /\ entity(cc.conn) # ""
            THEN DictAppend(acc, entity(cc.conn), cc.column)
            ELSE acc
    IN Fold(step, <<>>, column_connections(columns))

\* sat.py 61-63
sat_multiactive_key_columns(attrs) ==
    LET flagged(a) == a.multiactive_key
        name(a) == a.column
    IN SelectSeqMap(attrs, flagged, name)

\* a payload that keeps the columns flagged as multiactive keys
sat_payload_columns_unfiltered(attributes, multiactive_key_columns) ==
    [i \in DOMAIN attributes |-> attributes[i].column]

\* sat.py 106-113
sat_payload_columns(attributes, multiactive_key_columns) ==
    LET keep(a) == a.column \notin Range(multiactive_key_columns)
        name(a) == a.column
    IN SelectSeqMap(attributes, keep, name)

\* SatGenerator.render_sql; entity_key_column is <<>> for None
SatGenerator_render_sql(target_name, source_name, attributes, entity_key_column, multiactive_key_columns) ==
    [template |-> IF multiactive_key_columns # <<>> THEN "ma_sat.sql" ELSE "sat.sql",
     target_name |-> target_name,
     source_model |-> get_stage_ref(source_name),
     payload_columns |-> sat_payload_columns(attributes, multiactive_key_columns),
     cdk_columns |-> multiactive_key_columns,
     entity_key_column |-> entity_key_column]

\* sat.py 67-70
sat_filename(target_name, source_name, is_multiactive) ==
    IF is_multiactive
    THEN "ma_sat_" \o target_name \o "__" \o source_name \o ".sql"
    ELSE "sat_" \o target_name \o "__" \o source_name \o ".sql"

\* sat.py 59-89 for one source
sat_files_of_source(e) ==
    LET entity_columns == sat_entity_columns(e.v.columns)
        file(t) ==
            LET mak == sat_multiactive_key_columns(t.v)
                key == IF DictHas(entity_columns, t.k)
                       THEN <<DictGet(entity_columns, t.k)[1]>> ELSE <<>>
            IN [path |-> "sat/" \o sat_filename(t.k, e.k, mak # <<>>),
                content |-> SatGenerator_render_sql(t.k, e.k, t.v, key, mak)]
        tc == sat_target_columns(e.v.columns)
    IN [i \in DOMAIN tc |-> file(tc[i])]

\* SatGenerator.generate
SatGenerator_generate(source_models, targets_by_name) ==
    Flatten([s \in DOMAIN source_models |-> sat_files_of_source(source_models[s])])

(***************************************************************************)
(* MetaDVGenerator._build_validation_context                                *)
(***************************************************************************)
\* bool(x) of a str-or-list value
truthy(x) == x.v # (IF x.kind = "str" THEN "" ELSE <<>>)

\* the context builder's own reading of the annotation, generator.py 291-321
context_target(column) ==
    IF Has(column, "target") THEN column.target
    ELSE LET meta == IF Has(column, "meta") THEN column.meta ELSE EmptyDict
             ens == IF Has(meta, "entity_name") /\ truthy(meta.entity_name)
                    THEN as_list(meta.entity_name) ELSE <<>>
             ats == IF Has(meta, "attribute_of") /\ truthy(meta.attribute_of)
                    THEN as_list(meta.attribute_of) ELSE <<>>
             entity(en) == IF Has(meta, "entity_relation") /\ meta.entity_relation # ""
                           THEN [target_name |-> meta.entity_relation, entity_name |-> en]
                           ELSE [target_name |-> en]
         IN IF Has(meta, "target") THEN meta.target
            ELSE [i \in DOMAIN ens |-> entity(ens[i])]
                 \o [i \in DOMAIN ats |-> [attribute_of |-> ats[i]]]

\* target_map, generator.py 258-266
target_map_step(acc, target) ==
    DictSet(acc, IF Has(target, "name") THEN target.name ELSE "",
            [type |-> target_type_of(target), entities |-> target_entities_of(target)])

build_target_map(targets) == Fold(target_map_step, <<>>, targets)

\* the tuple (entity_name, entity_index); a missing index (None) is <<>>
position_of(c) ==
    [entity_name |-> c.entity_name,
     entity_index |-> IF Has(c, "entity_index") THEN <<c.entity_index>> ELSE <<>>]

\* ctx[field][source_name].add(x)
ctx_add(d, source_name, x) == DictSet(d, source_name, DictGet(d, source_name) \cup {x})

\* ctx.source_relation_entity_positions[source_name][relation].add(pos)
ctx_add_position(d, source_name, relation, pos) ==
    LET inner == DictGet(d, source_name)
        old == IF DictHas(inner, relation) THEN DictGet(inner, relation) ELSE {}
    IN DictSet(d, source_name, DictSet(inner, relation, old \cup {pos}))

\* a step that tracks every key connection as one to an entity target
context_conn_step_untyped(source_name, acc, c) ==
    IF conn_attribute_of(c) # "" \/ conn_target_name(c) = "" THEN acc
    ELSE [acc EXCEPT
            !.entity_sources = @ \cup {conn_target_name(c)},
            !.source_entity_connections = ctx_add(@, source_name, conn_target_name(c))]

\* one connection of one column, generator.py 325-357
context_conn_step(source_name, acc, c) ==
    LET target_name == conn_target_name(c)
        entity_name == conn_entity_name(c)
        target_type == target_type_of(target_info_of(acc.target_map, target_name))
    IN IF conn_attribute_of(c) # "" THEN acc
       ELSE IF target_name = "" THEN acc
       ELSE IF target_type = "relation"
       THEN LET rel == [acc EXCEPT !.source_relation_connections =
                                       ctx_add(@, source_name, target_name)]
            IN IF entity_name # ""
               THEN [rel EXCEPT
                       !.entity_sources = @ \cup {entity_name},
                       !.source_entity_connections = ctx_add(@, source_name, entity_name),
                       !.source_relation_entity_positions =
                           ctx_add_position(@, source_name, target_name, position_of(c))]
               ELSE rel
       ELSE [acc EXCEPT
               !.entity_sources = @ \cup {target_name},
               !.source_entity_connections = ctx_add(@, source_name, target_name)]

\* has_connection of one column
context_has_connection(target) ==
    \E i \in DOMAIN target :
        conn_attribute_of(target[i]) # "" \/ conn_target_name(target[i]) # ""

\* one column, generator.py 287-360
context_column_step(source_name, acc, column) ==
    LET target == context_target(column)
        step(a, c) == context_conn_step(source_name, a, c)
        conns == Fold(step, acc, target)
    IN [conns EXCEPT
          !.total_columns = @ + 1,
          !.columns_with_connections = IF context_has_connection(target) THEN @ + 1 ELSE @]

\* if source_name not in ctx[field]: ctx[field][source_name] = empty
ctx_ensure(d, source_name, empty) ==
    IF DictHas(d, source_name) THEN d ELSE Append(d, [k |-> source_name, v |-> empty])

\* one source, generator.py 276-360
context_source_step(acc, source) ==
    LET ensured == [acc EXCEPT
                      !.source_entity_connections = ctx_ensure(@, source.name, {}),
                      !.source_relation_connections = ctx_ensure(@, source.name, {}),
                      !.source_relation_entity_positions = ctx_ensure(@, source.name, <<>>)]
        step(a, column) == context_column_step(source.name, a, column)
    IN Fold(step, ensured, source.columns)

build_validation_context(content) ==
    Fold(context_source_step,
         [target_map |-> build_target_map(content.targets),
          sources |-> content.sources,
          entity_sources |-> {},
          source_entity_connections |-> <<>>,
          source_relation_connections |-> <<>>,
          source_relation_entity_positions |-> <<>>,
          total_columns |-> 0,
          columns_with_connections |-> 0],
         content.sources)

(***************************************************************************)
(* Validation rules and engine                                              *)
(***************************************************************************)
ValidationMessage(type, code, message) ==
    [type |-> type, code |-> code, message |-> message]

\* a rule that takes the presence of the target key for a connection
column_has_connection_by_key(column) ==
    \/ Has(column, "target")
    \/ Has(column, "meta")
         /\ \/ Has(column.meta, "target")
            \/ Has(column.meta, "entity_name")
            \/ Has(column.meta, "attribute_of")

\* has_connection of ColumnNoConnectionValidator, column_no_connection.py 19-36
column_has_connection(column) ==
    IF Has(column, "target") THEN column.target # <<>>
    ELSE LET meta == IF Has(column, "meta") THEN column.meta ELSE EmptyDict
         IN IF Has(meta, "target") THEN meta.target # <<>>
            ELSE \/ Has(meta, "entity_name") /\ truthy(meta.entity_name)
                 \/ Has(meta, "attribute_of") /\ truthy(meta.attribute_of)

column_no_connection_message(source_name, col_name) ==
    ValidationMessage("warning", "column_no_connection",
        "Column '" \o source_name \o "." \o col_name \o "' has no connection to any target")

ColumnNoConnectionValidator_validate(ctx) ==
    LET unconnected(column) == ~column_has_connection(column)
        of_source(source) ==
            LET msg(column) == column_no_connection_message(source.name, column.name)
            IN SelectSeqMap(source.columns, unconnected, msg)
    IN Flatten([s \in DOMAIN ctx.sources |-> of_source(ctx.sources[s])])

entity_no_source_message(target_name) ==
    ValidationMessage("warning", "entity_no_source",
        "Entity '" \o target_name \o "' has no source connection")

\* The EntityNoSource rule: one warning per entity-type target that is not in
\* the context's set of entities having a source.
EntityNoSourceValidator_validate(ctx) ==
    LET unsourced(t) == t.v.type = "entity" /\ t.k \notin ctx.entity_sources
        msg(t) == entity_no_source_message(t.k)
    IN SelectSeqMap(ctx.target_map, unsourced, msg)

\* validator_class().validate(ctx) of one discovered rule; a rule of kind
\* "other" is any further module of the validations folder and returns msgs
rule_validate(rule, ctx) ==
    IF rule.kind = "column_no_connection" THEN ColumnNoConnectionValidator_validate(ctx)
    ELSE IF rule.kind = "entity_no_source" THEN EntityNoSourceValidator_validate(ctx)
    ELSE rule.msgs

\* validator.validate(ctx) of the rule raises an exception
rule_raises(rule) == Has(rule, "raises")

\* a loop that stops calling rules once one has returned an error
run_validations_step_until_error(ctx, acc, rule) ==
    IF acc.raised \/ \E m \in Range(acc.messages) : m.type = "error"
    THEN acc
    ELSE IF rule_raises(rule)
    THEN [acc EXCEPT !.invoked = Append(@, rule.kind), !.raised = TRUE]
    ELSE [acc EXCEPT !.messages = @ \o rule_validate(rule, ctx),
                     !.invoked = Append(@, rule.kind)]

\* one iteration of the loop of run_validations; invoked records the calls,
\* raised that a call raised and the loop was left
run_validations_step(ctx, acc, rule) ==
    IF acc.raised THEN acc
    ELSE IF rule_raises(rule)
    THEN [acc EXCEPT !.invoked = Append(@, rule.kind), !.raised = TRUE]
    ELSE [acc EXCEPT !.messages = @ \o rule_validate(rule, ctx),
                     !.invoked = Append(@, rule.kind)]

\* run_validations
run_validations(ctx, validator_classes) ==
    LET step(acc, rule) == run_validations_step(ctx, acc, rule)
    IN Fold(step, [messages |-> <<>>, invoked |-> <<>>, raised |-> FALSE], validator_classes)

is_error(m) == m.type = "error"
is_warning(m) == m.type = "warning"

\* MetaDVGenerator.validate, generator.py 213-249
validate(file, validator_classes) ==
    IF file.state = "no_project"
    THEN [success |-> FALSE, errors |-> <<>>, warnings |-> <<>>, invoked |-> <<>>,
          error |-> "Project path does not exist"]
    ELSE IF file.state = "missing"
    THEN [success |-> FALSE, errors |-> <<>>, warnings |-> <<>>, invoked |-> <<>>,
          error |-> "metadv.yml not found. Please initialize MetaDV first."]
    ELSE IF file.state = "malformed"
    THEN [success |-> FALSE, errors |-> <<>>, warnings |-> <<>>, invoked |-> <<>>,
          error |-> "yaml error"]
    ELSE LET ctx == build_validation_context(file)
             run == run_validations(ctx, validator_classes)
         IN IF run.raised
            THEN [success |-> FALSE, errors |-> <<>>, warnings |-> <<>>,
                  invoked |-> run.invoked, error |-> "rule error"]
            ELSE
            [success |-> TRUE,
             errors |-> SelectSeq(run.messages, is_error),
             warnings |-> SelectSeq(run.messages, is_warning),
             messages |-> run.messages,
             invoked |-> run.invoked,
             summary |-> [total_targets |-> Len(ctx.target_map),
                          total_columns |-> ctx.total_columns,
                          columns_with_connections |-> ctx.columns_with_connections]]

\* the error text of a blocked generate, generator.py 398-399
validation_error_text(errors) ==
    "Validation errors: " \o Join("; ", [i \in DOMAIN errors |-> errors[i].message])

(***************************************************************************)
(* State                                                                    *)
(***************************************************************************)
VARIABLES
    file,               \* models/metadv/metadv.yml as it is on disk
    validator_classes,  \* discover_validators(): the rules of the validations folder
    edits,              \* how often the file or the rules were changed so far
    self_data,          \* MetaDVGenerator._data: <<>> for None, else <<data>>
    pc,                 \* the position of the running generate(), or "idle"
    data,               \* generate(): the local data returned by self.read()
    validation,         \* generate(): the local validation
    generated_files,    \* generate(): the local generated_files
    fs,                 \* the .sql files of stage/, hub/, link/ and sat/
    dirs,               \* the output folders that exist
    ret,                \* what the last call of read/validate/generate returned
    first,              \* history: the input and result of the first successful generate(),
                        \* and whether one with another input has succeeded since
    before,             \* history: the artifacts present when generate() was last called
    intent,             \* normalizer check: the connection list the author means
    norm                \* normalizer check: what read() made of each annotation shape

vars == <<file, validator_classes, edits, self_data, pc, data, validation,
          generated_files, fs, dirs, ret, first, before, intent, norm>>

gen_locals == <<data, validation, generated_files>>
norm_vars == <<intent, norm>>
env_vars == <<file, validator_classes, edits>>

None == <<>>

\* open(filepath, 'w').write(content) for each file in turn
write_file(files, f) == {g \in files : g.path # f.path} \cup {f}

write_files(files, written) == Fold(write_file, files, written)

paths_of(written) == [i \in DOMAIN written |-> written[i].path]

(***************************************************************************)
(* The calls of the public API.  read() and validate() are one step each;   *)
(* generate() is a sequence of steps, one per block of its body.            *)
(***************************************************************************)
\* generator.read()
Read ==
    /\ pc = "idle"
    /\ LET r == read(file)
       IN /\ self_data' = IF r.success THEN <<r.data>> ELSE self_data
          /\ ret' = [call |-> "read", result |-> r]
    /\ UNCHANGED <<env_vars, pc, gen_locals, fs, dirs, first, before, norm_vars>>

\* generator.validate()
Validate ==
    /\ pc = "idle"
    /\ ret' = [call |-> "validate", result |-> validate(file, validator_classes)]
    /\ UNCHANGED <<env_vars, self_data, pc, gen_locals, fs, dirs, first, before, norm_vars>>

\* a generate() that derives from the data the instance held before this read
GenRead_previous_data ==
    /\ pc = "idle"
    /\ LET r == read(file)
       IN IF r.success
          THEN /\ self_data' = <<r.data>>
               /\ data' = IF self_data # None THEN self_data[1] ELSE r.data
               /\ pc' = "validate"
               /\ ret' = [call |-> "none"]
          ELSE /\ ret' = [call |-> "generate", success |-> FALSE, error |-> r.error,
                          files |-> <<>>]
               /\ UNCHANGED <<self_data, data, pc>>
    /\ validation' = None
    /\ generated_files' = <<>>
    /\ before' = fs
    /\ UNCHANGED <<env_vars, fs, dirs, first, norm_vars>>

\* generate(), lines 391-393: success, error, data = self.read()
GenRead ==
    /\ pc = "idle"
    /\ LET r == read(file)
       IN IF r.success
          THEN /\ self_data' = <<r.data>>
               /\ data' = r.data
               /\ pc' = "validate"
               /\ ret' = [call |-> "none"]
          ELSE /\ ret' = [call |-> "generate", success |-> FALSE, error |-> r.error,
                          files |-> <<>>]
               /\ UNCHANGED <<self_data, data, pc>>
    /\ validation' = None
    /\ generated_files' = <<>>
    /\ before' = fs
    /\ UNCHANGED <<env_vars, fs, dirs, first, norm_vars>>

\* a generate() that validates but goes on whatever the result
GenValidate_never_blocks ==
    /\ pc = "validate"
    /\ validation' = validate(file, validator_classes)
    /\ pc' = "cleanup"
    /\ UNCHANGED <<env_vars, self_data, data, generated_files, fs, dirs, first, before, ret,
                   norm_vars>>

\* generate(), lines 396-399: validation = self.validate(); abort on errors
GenValidate ==
    /\ pc = "validate"
    /\ LET v == validate(file, validator_classes)
       IN /\ validation' = v
          /\ IF v.errors # <<>>
             THEN /\ ret' = [call |-> "generate", success |-> FALSE,
                             error |-> validation_error_text(v.errors), files |-> <<>>]
                  /\ pc' = "idle"
             ELSE /\ pc' = "cleanup"
                  /\ UNCHANGED ret
    /\ UNCHANGED <<env_vars, self_data, data, generated_files, fs, dirs, first, before, norm_vars>>

\* generate(), lines 402-409: output_dir.mkdir, _cleanup_generated_folders
GenCleanup ==
    /\ pc = "cleanup"
    /\ dirs' = dirs \cup {"output"}
    /\ fs' = {}
    /\ pc' = "stage"
    /\ UNCHANGED <<env_vars, self_data, gen_locals, ret, first, before, norm_vars>>

\* one generator of lines 444-458: its files are written and listed
emit(folder, written, next) ==
    /\ dirs' = dirs \cup {folder}
    /\ fs' = write_files(fs, written)
    /\ generated_files' = generated_files \o paths_of(written)
    /\ pc' = next

\* what the generator run at position p writes, in order
generator_output(p, d) ==
    LET source_models == build_source_models(d.source_columns)
        targets_by_name == build_targets_by_name(d.targets)
    IN CASE p = "stage" -> StageGenerator_generate(source_models, targets_by_name)
         [] p = "hub" -> HubGenerator_generate(source_models, targets_by_name)
         [] p = "link" -> LinkGenerator_generate(source_models, targets_by_name)
         [] p = "sat" -> SatGenerator_generate(source_models, targets_by_name)

\* generate(), lines 411-446: the structures are built, the stage models written
GenStage ==
    /\ pc = "stage"
    /\ emit("stage", generator_output("stage", data), "hub")
    /\ UNCHANGED <<env_vars, self_data, data, validation, ret, first, before, norm_vars>>

\* generate(), lines 449-450
GenHub ==
    /\ pc = "hub"
    /\ emit("hub", generator_output("hub", data), "link")
    /\ UNCHANGED <<env_vars, self_data, data, validation, ret, first, before, norm_vars>>

\* generate(), lines 453-454
GenLink ==
    /\ pc = "link"
    /\ emit("link", generator_output("link", data), "sat")
    /\ UNCHANGED <<env_vars, self_data, data, validation, ret, first, before, norm_vars>>

\* generate(), lines 457-460: the satellites, then return True, None, generated_files
GenSat ==
    /\ pc = "sat"
    /\ emit("sat", generator_output("sat", data), "idle")
    /\ ret' = [call |-> "generate", success |-> TRUE, files |-> generated_files']
    /\ first' = IF first = None
                THEN <<[file |-> file, fs |-> fs', files |-> generated_files',
                        warnings |-> validation.warnings, other_input |-> FALSE]>>
                ELSE IF first[1].file # file
                THEN <<[first[1] EXCEPT !.other_input = TRUE]>>
                ELSE first
    /\ UNCHANGED <<env_vars, self_data, data, validation, before, norm_vars>>

Calls == \/ Read
         \/ Validate
         \/ GenRead
         \/ GenValidate
         \/ GenCleanup
         \/ GenStage
         \/ GenHub
         \/ GenLink
         \/ GenSat

(***************************************************************************)
(* Configurations.  A configuration is built from a short script: each item *)
(* is a connection (or an unannotated column) and says whether it opens a   *)
(* new source, a new column of the current source, or joins the current     *)
(* column.  Sources are named s1, s2, ..., columns c1, c2, ... in document  *)
(* order.                                                                   *)
(***************************************************************************)
MaxItems == 2

Entity(name) == [name |-> name, type |-> "entity"]
Relation(name, entities) == [name |-> name, type |-> "relation", entities |-> entities]

SelfLinkTargets == <<Entity("A"), Entity("B"), Relation("rel", <<"A", "A", "B">>)>>
PlainTargets == <<Entity("A"), Entity("B"), Relation("rel", <<"A", "B">>)>>
\* two relations over the same entities
TwoRelationTargets ==
    <<Entity("A"), Entity("B"), Relation("rel", <<"A", "B">>), Relation("rel2", <<"B", "A">>)>>

EntityKey(target_name) == [target_name |-> target_name]
RoleKey(target_name, entity_name) ==
    [target_name |-> target_name, entity_name |-> entity_name]
SlotKey(target_name, entity_name, entity_index) ==
    [target_name |-> target_name, entity_name |-> entity_name, entity_index |-> entity_index]
Attribute(attribute_of) == [attribute_of |-> attribute_of]
MultiactiveKey(attribute_of) == [attribute_of |-> attribute_of, multiactive_key |-> TRUE]

ConnPool ==
    { EntityKey("A"), SlotKey("rel", "A", 0), SlotKey("rel", "A", 1), RoleKey("rel", "A"),
      RoleKey("rel", "B"), SlotKey("rel", "B", 0), RoleKey("rel", "C"), Attribute("A"),
      MultiactiveKey("A") }

SmallPool == { EntityKey("A") }

\* the connections of a source to one relation, to the other, and to the entity
LinkPool == { EntityKey("A"), RoleKey("rel", "A"), RoleKey("rel2", "A"), RoleKey("rel2", "B") }

\* a role entity written without the relation it is a role of
OrphanRole(entity_name) == [entity_name |-> entity_name]

\* connections at the edge of what a document may say: a relation named
\* without a role entity, a target that is not declared, a role without target
EdgePool ==
    { EntityKey("A"), EntityKey("rel"), EntityKey("X"), RoleKey("rel", "A"), Attribute("A"),
      OrphanRole("A") }

Unannotated == [none |-> TRUE]

Places == {"source", "column", "same"}

Items(pool) ==
    {[conn |-> c, place |-> p] : c \in pool \cup {Unannotated}, p \in Places}
        \ {[conn |-> Unannotated, place |-> "same"]}

Scripts(pool) ==
    {<<>>} \cup UNION {{sc \in [1..n -> Items(pool)] : sc[1].place = "source"} :
                        n \in 1..MaxItems}

\* the annotation of a new column, in the unified shape
new_column(index, item) ==
    IF item.conn = Unannotated
    THEN [name |-> "c" \o ToString(index)]
    ELSE [name |-> "c" \o ToString(index), target |-> <<item.conn>>]

column_count(sources) == Len(Flatten([i \in DOMAIN sources |-> sources[i].columns]))

\* the sources after one more item of the script
script_step(sources, item) ==
    LET n == Len(sources)
        last == sources[n]
        m == Len(last.columns)
        col == new_column(column_count(sources) + 1, item)
    IN IF item.place = "source"
       THEN Append(sources, [name |-> "s" \o ToString(n + 1), columns |-> <<col>>])
       ELSE IF item.place = "column"
       THEN [sources EXCEPT ![n].columns = Append(@, col)]
       ELSE IF Has(last.columns[m], "target")
       THEN [sources EXCEPT ![n].columns[m].target = Append(@, item.conn)]
       ELSE [sources EXCEPT ![n].columns[m] = @ @@ ("target" :> <<item.conn>>)]

Document(targets, sources) == [state |-> "ok", targets |-> targets, sources |-> sources]

ScriptedFiles(target_lists, pool) ==
    {Document(ts, Fold(script_step, <<>>, sc)) : ts \in target_lists, sc \in Scripts(pool)}

\* the self-link of the specification: rel over [A, A, B], one column per slot
SelfLinkProject ==
    Document(SelfLinkTargets,
             <<[name |-> "s1",
                columns |-> <<[name |-> "c1", target |-> <<SlotKey("rel", "A", 0)>>],
                              [name |-> "c2", target |-> <<SlotKey("rel", "A", 1)>>],
                              [name |-> "c3", target |-> <<RoleKey("rel", "B")>>]>>]>>)

\* the end-to-end example: the customer half of the fixture of tests/test_generator.py
SampleProject ==
    Document(<<Entity("customer")>>,
             <<[name |-> "stg_customers",
                columns |-> <<[name |-> "customer_id", target |-> <<EntityKey("customer")>>],
                              [name |-> "customer_name", target |-> <<Attribute("customer")>>]>>]>>)

MultiactiveProject ==
    Document(<<Entity("customer")>>,
             <<[name |-> "stg_phones",
                columns |-> <<[name |-> "customer_id", target |-> <<EntityKey("customer")>>],
                              [name |-> "phone_type", target |-> <<MultiactiveKey("customer")>>],
                              [name |-> "phone_number", target |-> <<Attribute("customer")>>]>>]>>)

\* one column in each way an annotation can be written or left out
AnnotationForms ==
    { EmptyDict,
      [target |-> <<>>],
      [meta |-> EmptyDict],
      [meta |-> [target |-> <<>>]],
      [meta |-> [entity_name |-> [kind |-> "list", v |-> <<>>]]],
      [target |-> <<>>, meta |-> [target |-> <<EntityKey("A")>>]],
      [target |-> <<Attribute("A")>>],
      [meta |-> [target |-> <<EntityKey("A")>>]],
      [meta |-> [entity_name |-> [kind |-> "str", v |-> "A"], entity_relation |-> "rel",
                 entity_name_index |-> 1]],
      [meta |-> [attribute_of |-> [kind |-> "list", v |-> <<"A", "rel">>]]],
      [target |-> <<Attribute("A")>>, meta |-> [target |-> <<EntityKey("A")>>]],
      [target |-> <<EntityKey("B")>>, meta |-> [entity_name |-> [kind |-> "str", v |-> "A"]]],
      [meta |-> [target |-> <<EntityKey("B")>>, entity_name |-> [kind |-> "str", v |-> "A"],
                 attribute_of |-> [kind |-> "list", v |-> <<"A">>]]],
      [meta |-> [target |-> <<>>, attribute_of |-> [kind |-> "str", v |-> "A"]]] }

\* one source of two columns, each annotated in one of the forms
ShapeFiles ==
    {Document(SelfLinkTargets,
              <<[name |-> "s1",
                 columns |-> <<("name" :> "c1") @@ a, ("name" :> "c2") @@ b>>]>>) :
        a \in AnnotationForms, b \in AnnotationForms}

NoSourceProject == Document(<<Entity("customer")>>, <<>>)

\* two relations over the same entities in the same order, one source keyed
\* to both
SameEntitiesProject ==
    Document(<<Entity("A"), Entity("B"), Relation("rel", <<"A", "B">>),
               Relation("rel2", <<"A", "B">>)>>,
             <<[name |-> "s1",
                columns |-> <<[name |-> "c1", target |-> <<RoleKey("rel", "A")>>],
                              [name |-> "c2", target |-> <<RoleKey("rel2", "A")>>]>>]>>)

\* an entity whose name reads like a role of the relation
NameClashProject ==
    Document(<<Entity("A"), Entity("B"), Entity("rel_A"), Relation("rel", <<"A", "B">>)>>,
             <<[name |-> "s1",
                columns |-> <<[name |-> "c1", target |-> <<EntityKey("rel_A")>>],
                              [name |-> "c2", target |-> <<RoleKey("rel", "A")>>]>>]>>)

NoProjectPath == [state |-> "no_project"]
MissingFile == [state |-> "missing"]
MalformedFile == [state |-> "malformed"]

\* the two rules of the package, in the order pkgutil.iter_modules lists them
BaseRules == <<[kind |-> "column_no_connection"], [kind |-> "entity_no_source"]>>

InitGenerator ==
    /\ edits = 0
    /\ self_data = None
    /\ pc = "idle"
    /\ data = None
    /\ validation = None
    /\ generated_files = <<>>
    /\ fs = {}
    /\ dirs = {}
    /\ ret = [call |-> "none"]
    /\ first = None
    /\ before = {}
    /\ intent = None
    /\ norm = None

(***************************************************************************)
(* SpecDerive: the generator run, any number of times, against one          *)
(* configuration and the package's own rules.                               *)
(***************************************************************************)
InitDerive ==
    /\ file \in ScriptedFiles({SelfLinkTargets, PlainTargets}, ConnPool)
                 \cup ScriptedFiles({PlainTargets}, EdgePool)
                 \cup ScriptedFiles({TwoRelationTargets}, LinkPool)
                 \cup ShapeFiles
                 \cup {SampleProject, MultiactiveProject, NoSourceProject, SelfLinkProject,
                       NameClashProject, SameEntitiesProject,
                       NoProjectPath, MissingFile, MalformedFile}
    /\ validator_classes = BaseRules
    /\ InitGenerator

SpecDerive == InitDerive /\ [][Calls]_vars

(***************************************************************************)
(* Spec: the generator run, any number of times, while the author edits the *)
(* configuration between calls, under any set of discovered rules.          *)
(***************************************************************************)
MaxEdits == 2

Reverse(seq) == [i \in DOMAIN seq |-> seq[Len(seq) + 1 - i]]

\* the document with the columns of every source in the opposite order
reverse_columns(doc) ==
    [doc EXCEPT !.sources = [i \in DOMAIN doc.sources |->
                                [doc.sources[i] EXCEPT !.columns = Reverse(@)]]]

\* the author edits metadv.yml between two calls
EditFile ==
    /\ pc = "idle"
    /\ edits < MaxEdits
    /\ file.state = "ok"
    /\ file' = reverse_columns(file)
    /\ edits' = edits + 1
    /\ UNCHANGED <<validator_classes, self_data, pc, gen_locals, fs, dirs, ret, first, before,
                   norm_vars>>

\* a generator raises (the folder cannot be made, a template does not render,
\* a file cannot be written) after it has written k of its files; generate(),
\* lines 462-463, returns the files of the generators that had returned
GenFails ==
    /\ pc \in {"stage", "hub", "link", "sat"}
    /\ edits < MaxEdits
    /\ LET written == generator_output(pc, data)
       IN \E k \in 0..(IF written = <<>> THEN 0 ELSE Len(written) - 1) :
            /\ fs' = write_files(fs, SubSeq(written, 1, k))
            /\ dirs' = IF k > 0 THEN dirs \cup {pc} ELSE dirs
    /\ pc' = "idle"
    /\ ret' = [call |-> "generate", success |-> FALSE, error |-> "Generation error",
               files |-> generated_files]
    /\ edits' = edits + 1
    /\ UNCHANGED <<file, validator_classes, self_data, gen_locals, first, before, norm_vars>>

\* the project, or metadv.yml, is removed or left half-written between two calls
LoseFile ==
    /\ pc = "idle"
    /\ edits < MaxEdits
    /\ file.state = "ok"
    /\ file' \in {NoProjectPath, MissingFile, MalformedFile}
    /\ edits' = edits + 1
    /\ UNCHANGED <<validator_classes, self_data, pc, gen_locals, fs, dirs, ret, first, before,
                   norm_vars>>

\* a further rule of the validations folder, returning msgs
OtherRule(msgs) == [kind |-> "other", msgs |-> msgs]

FirstError == ValidationMessage("error", "custom_error", "first problem")
SecondError == ValidationMessage("error", "custom_error", "second problem")
CustomWarning == ValidationMessage("warning", "custom_warning", "a remark")
\* a further rule whose validate() raises
RaisingRule == [kind |-> "other", msgs |-> <<>>, raises |-> TRUE]

RuleSets ==
    { BaseRules,
      BaseRules \o <<OtherRule(<<CustomWarning>>)>>,
      <<BaseRules[1], OtherRule(<<FirstError, CustomWarning, SecondError>>), BaseRules[2]>>,
      <<BaseRules[1], RaisingRule, BaseRules[2]>> }

\* a module is added to or removed from the validations folder between two calls
ChangeRules ==
    /\ pc = "idle"
    /\ edits < MaxEdits
    /\ validator_classes' \in RuleSets \ {validator_classes}
    /\ edits' = edits + 1
    /\ UNCHANGED <<file, self_data, pc, gen_locals, fs, dirs, ret, first, before, norm_vars>>

Init ==
    /\ file \in ScriptedFiles({SelfLinkTargets}, SmallPool)
                 \cup {SampleProject, MultiactiveProject, NoSourceProject, SelfLinkProject,
                       NoProjectPath, MissingFile, MalformedFile}
    /\ validator_classes = BaseRules
    /\ InitGenerator

Next == Calls \/ GenFails \/ EditFile \/ LoseFile \/ ChangeRules

Spec == Init /\ [][Next]_vars

(***************************************************************************)
(* SpecNorm: one column whose author means the connection list intent and   *)
(* writes it in each of the three annotation shapes; read() normalizes each.*)
(***************************************************************************)
MaxConns == 2

\* the connections of the data model: optional fields are <<>> or <<value>>
EntityKeyConn(target_name, entity_name, entity_index) ==
    [kind |-> "EntityKey", target_name |-> target_name, entity_name |-> entity_name,
     entity_index |-> entity_index]
AttributeConn(attribute_of, target_attribute, multiactive_key) ==
    [kind |-> "Attribute", attribute_of |-> attribute_of,
     target_attribute |-> target_attribute, multiactive_key |-> multiactive_key]

Optional(d, k) == IF Has(d, k) THEN <<d[k]>> ELSE <<>>

\* a connection dict read as a connection of the data model, with the
\* accessors the generators use
Canon(c) ==
    IF conn_attribute_of(c) # ""
    THEN AttributeConn(c.attribute_of, Optional(c, "target_attribute"), conn_multiactive(c))
    ELSE EntityKeyConn(conn_target_name(c), Optional(c, "entity_name"),
                       Optional(c, "entity_index"))

CanonList(target) == [i \in DOMAIN target |-> Canon(target[i])]

IntentPool ==
    { EntityKeyConn("A", <<>>, <<>>), EntityKeyConn("B", <<>>, <<>>),
      EntityKeyConn("rel", <<"A">>, <<>>), EntityKeyConn("rel", <<"A">>, <<0>>),
      EntityKeyConn("rel", <<"A">>, <<1>>), EntityKeyConn("rel", <<"B">>, <<>>),
      AttributeConn("A", <<>>, FALSE), AttributeConn("A", <<>>, TRUE),
      AttributeConn("B", <<"label">>, FALSE), AttributeConn("rel", <<>>, FALSE) }

Intents == UNION {[1..n -> IntentPool] : n \in 0..MaxConns}

\* "plain" leaves out what is optional and writes one name as a scalar;
\* "explicit" writes multiactive_key: false and one name as a list
Styles == {"plain", "explicit"}

opt_field(k, v) == IF v = <<>> THEN EmptyDict ELSE (k :> v[1])

\* one connection written as an entry of a target list (section 6 of the spec)
write_conn(c, style) ==
    IF c.kind = "EntityKey"
    THEN [target_name |-> c.target_name]
         @@ opt_field("entity_name", c.entity_name)
         @@ opt_field("entity_index", c.entity_index)
    ELSE [attribute_of |-> c.attribute_of]
         @@ opt_field("target_attribute", c.target_attribute)
         @@ (IF c.multiactive_key THEN ("multiactive_key" :> TRUE)
             ELSE IF style = "explicit" THEN ("multiactive_key" :> FALSE) ELSE EmptyDict)

write_list(conns, style) == [i \in DOMAIN conns |-> write_conn(conns[i], style)]

is_entity_key(c) == c.kind = "EntityKey"
is_attribute(c) == c.kind = "Attribute"

\* the oldest fields hold entity keys before attributes, one relation and one
\* index for all entity names, one target_attribute and one multiactive_key
\* for all attribute targets
oldest_expressible(conns) ==
    LET eks == SelectSeq(conns, is_entity_key)
        ats == SelectSeq(conns, is_attribute)
    IN /\ conns = eks \o ats
       /\ \A i, j \in DOMAIN eks :
            /\ eks[i].entity_index = eks[j].entity_index
            /\ (eks[i].entity_name = <<>>) = (eks[j].entity_name = <<>>)
            /\ eks[i].entity_name # <<>> => eks[i].target_name = eks[j].target_name
       /\ \A i, j \in DOMAIN ats :
            /\ ats[i].target_attribute = ats[j].target_attribute
            /\ ats[i].multiactive_key = ats[j].multiactive_key

str_or_list(names, style) ==
    IF Len(names) = 1 /\ style = "plain"
    THEN [kind |-> "str", v |-> names[1]]
    ELSE [kind |-> "list", v |-> names]

\* the meta object of the oldest shape
write_oldest(conns, style) ==
    LET eks == SelectSeq(conns, is_entity_key)
        ats == SelectSeq(conns, is_attribute)
        names == [i \in DOMAIN eks |-> IF eks[i].entity_name = <<>> THEN eks[i].target_name
                                       ELSE eks[i].entity_name[1]]
        entity_fields ==
            IF eks = <<>> THEN EmptyDict
            ELSE ("entity_name" :> str_or_list(names, style))
                 @@ (IF eks[1].entity_name = <<>> THEN EmptyDict
                     ELSE ("entity_relation" :> eks[1].target_name))
                 @@ opt_field("entity_name_index", eks[1].entity_index)
        attribute_fields ==
            IF ats = <<>> THEN EmptyDict
            ELSE ("attribute_of" :>
                    str_or_list([i \in DOMAIN ats |-> ats[i].attribute_of], style))
                 @@ opt_field("target_attribute", ats[1].target_attribute)
                 @@ (IF ats[1].multiactive_key THEN ("multiactive_key" :> TRUE)
                     ELSE IF style = "explicit" THEN ("multiactive_key" :> FALSE)
                     ELSE EmptyDict)
    IN entity_fields @@ attribute_fields

\* the column written in one of the three shapes
write_column(shape, conns, style) ==
    IF shape = "unified" THEN [name |-> "c1", target |-> write_list(conns, style)]
    ELSE IF shape = "legacy"
    THEN [name |-> "c1", meta |-> [target |-> write_list(conns, style)]]
    ELSE [name |-> "c1", meta |-> write_oldest(conns, style)]

Shapes == {"unified", "legacy", "oldest"}

\* the author writes the column in one shape; read() is called
Normalize(shape) ==
    /\ pc = "idle"
    /\ norm[shape] = None
    /\ shape = "oldest" => oldest_expressible(intent.conns)
    /\ file' = Document(SelfLinkTargets,
                        <<[name |-> "s1",
                           columns |-> <<write_column(shape, intent.conns, intent.style)>>]>>)
    /\ LET r == read(file')
       IN /\ self_data' = <<r.data>>
          /\ ret' = [call |-> "read", result |-> r]
          /\ norm' = [norm EXCEPT ![shape] = <<r.data.source_columns[1].target>>]
    /\ UNCHANGED <<validator_classes, edits, pc, gen_locals, fs, dirs, first, before, intent>>

NormalizeUnified == Normalize("unified")
NormalizeLegacy == Normalize("legacy")
NormalizeOldest == Normalize("oldest")

InitNorm ==
    /\ file = MissingFile
    /\ validator_classes = BaseRules
    /\ edits = 0
    /\ self_data = None
    /\ pc = "idle"
    /\ data = None
    /\ validation = None
    /\ generated_files = <<>>
    /\ fs = {}
    /\ dirs = {}
    /\ ret = [call |-> "none"]
    /\ first = None
    /\ before = {}
    /\ intent \in {[conns |-> l, style |-> st] : l \in Intents, st \in Styles}
    /\ norm = [shape \in Shapes |-> None]

NextNorm == NormalizeUnified \/ NormalizeLegacy \/ NormalizeOldest

SpecNorm == InitNorm /\ [][NextNorm]_vars

(***************************************************************************)
(* Properties                                                               *)
(***************************************************************************)
\* a generate() call has returned success and nothing has run since
Generated == pc = "idle" /\ ret.call = "generate" /\ ret.success

files_of(template) == {f \in fs : f.content.template = template}

columns_of(source) == [i \in DOMAIN source.columns |-> source.columns[i].name]

\* the canonical connection list of a raw column
canonical(source, column) == read_column(source.name, column).target

\* C1: whatever shapes the author has written the column in so far, read()
\* returned the same canonical connection list for each, and it is the list the
\* author means: same entries, same field values, same order.
C1_ShapesNormalizeAlike ==
    \A x \in Shapes :
        norm[x] # None =>
            /\ CanonList(norm[x][1]) = intent.conns
            /\ \A y \in Shapes : norm[y] # None => CanonList(norm[y][1]) = CanonList(norm[x][1])

\* a slot key and an attribute, in this order, read from all three shapes
C1_Witness ==
    /\ \A x \in Shapes : norm[x] # None
    /\ Len(intent.conns) = 2
    /\ intent.conns[1] = EntityKeyConn("rel", <<"A">>, <<1>>)
    /\ intent.conns[2] = AttributeConn("A", <<>>, FALSE)
    /\ intent.style = "explicit"

\* the three connections of the self-link property, one per column
self_link_source(source) ==
    /\ Len(source.columns) = 3
    /\ \A i \in 1..3 : Len(canonical(source, source.columns[i])) = 1
    /\ \E a, b, c \in 1..3 :
        /\ {a, b, c} = 1..3
        /\ canonical(source, source.columns[a])[1] = SlotKey("rel", "A", 0)
        /\ canonical(source, source.columns[b])[1] = SlotKey("rel", "A", 1)
        /\ canonical(source, source.columns[c])[1] \in {RoleKey("rel", "B"), SlotKey("rel", "B", 0)}

column_with(source, conns) ==
    source.columns[CHOOSE i \in DOMAIN source.columns :
                       canonical(source, source.columns[i])[1] \in conns].name

\* C2: for rel over [A, A, B] and a source whose three columns carry
\* (rel, A, 0), (rel, A, 1) and (rel, B), the stage context of the source has
\* the aliases rel_A_1_id and rel_A_2_id and the groups rel_A_1_hk and
\* rel_A_2_hk for the two A columns, and rel_hk lists the three columns once
\* each in column order.
C2_SelfLinkKeys ==
    file.state = "ok" /\ file.targets = SelfLinkTargets =>
        \A i \in DOMAIN file.sources : \A f \in files_of("stage.sql") :
            self_link_source(file.sources[i]) /\ f.content.source_name = file.sources[i].name =>
                LET src == file.sources[i]
                    a1 == column_with(src, {SlotKey("rel", "A", 0)})
                    a2 == column_with(src, {SlotKey("rel", "A", 1)})
                    derived == f.content.derived_columns
                    hashed == f.content.hashed_columns
                IN /\ DictHas(derived, "rel_A_1_id") /\ DictGet(derived, "rel_A_1_id") = a1
                   /\ DictHas(derived, "rel_A_2_id") /\ DictGet(derived, "rel_A_2_id") = a2
                   /\ DictHas(hashed, "rel_A_1_hk") /\ DictGet(hashed, "rel_A_1_hk") = <<a1>>
                   /\ DictHas(hashed, "rel_A_2_hk") /\ DictGet(hashed, "rel_A_2_hk") = <<a2>>
                   /\ DictHas(hashed, "rel_hk") /\ DictGet(hashed, "rel_hk") = columns_of(src)

C2_Witness ==
    /\ file = SelfLinkProject
    /\ \E f \in files_of("stage.sql") : f.content.source_name = "s1"

\* the relation-type targets of the document
relations_of(doc) == {doc.targets[i] : i \in {j \in DOMAIN doc.targets :
                                                 doc.targets[j].type = "relation"}}

\* the connection of a column that fills role slot i of relation r
fills_slot(c, r, i) ==
    /\ conn_target_name(c) = r.name
    /\ conn_entity_name(c) = r.entities[i]
    /\ Has(c, "entity_index")
    /\ c.entity_index = Count(SubSeq(r.entities, 1, i - 1), r.entities[i])

\* C3: after a successful generate(), for every relation and role slot i, the
\* foreign key the link artifact lists for slot i is the name of the hash-key
\* group the stage context of a source has for each of its columns filling
\* slot i.
C3_LinkNamesMatchStage ==
    Generated =>
        \A r \in relations_of(file) : \A lf \in files_of("link.sql") :
            lf.content.link_name = r.name =>
                \A i \in DOMAIN r.entities : \A s \in DOMAIN file.sources :
                    \A col \in Range(file.sources[s].columns) :
                        \A c \in Range(canonical(file.sources[s], col)) :
                            fills_slot(c, r, i) =>
                                \E sf \in files_of("stage.sql") :
                                    /\ sf.content.source_name = file.sources[s].name
                                    /\ DictHas(sf.content.hashed_columns, lf.content.fk_columns[i])
                                    /\ col.name \in Range(DictGet(sf.content.hashed_columns,
                                                                  lf.content.fk_columns[i]))

\* the (source, target) pairs with at least one Attribute connection
attribute_targets(source) ==
    {conn_attribute_of(c) : c \in UNION {Range(canonical(source, col)) :
                                           col \in Range(source.columns)}} \ {""}

\* the columns of source flagged multiactive_key = true for target
multiactive_columns(source, target_name) ==
    {col.name : col \in {k \in Range(source.columns) :
        \E c \in Range(canonical(source, k)) :
            conn_attribute_of(c) = target_name /\ conn_multiactive(c)}}

ordinary_sat(target_name, source_name) ==
    "sat/sat_" \o target_name \o "__" \o source_name \o ".sql"
multiactive_sat(target_name, source_name) ==
    "sat/ma_sat_" \o target_name \o "__" \o source_name \o ".sql"

\* C4: after a successful generate(), every (source, target) pair with an
\* Attribute connection has exactly one satellite artifact: the multiactive
\* one if a connection of the pair is flagged multiactive_key, with no flagged
\* column in its payload, and otherwise the ordinary one; never both.
C4_OneSatellitePerPair ==
    Generated =>
        \A s \in DOMAIN file.sources : \A t \in attribute_targets(file.sources[s]) :
            LET src == file.sources[s]
                flagged == multiactive_columns(src, t)
                sats == {f \in fs : /\ f.content.template \in {"sat.sql", "ma_sat.sql"}
                                    /\ f.content.target_name = t
                                    /\ f.content.source_model = get_stage_ref(src.name)}
                listed == {i \in DOMAIN ret.files :
                              ret.files[i] \in {ordinary_sat(t, src.name),
                                                multiactive_sat(t, src.name)}}
            IN /\ Cardinality(sats) = 1
               /\ Cardinality(listed) = 1
               /\ \A f \in sats :
                    IF flagged # {}
                    THEN /\ f.path = multiactive_sat(t, src.name)
                         /\ f.content.template = "ma_sat.sql"
                         /\ Range(f.content.payload_columns) \cap flagged = {}
                    ELSE /\ f.path = ordinary_sat(t, src.name)
                         /\ f.content.template = "sat.sql"

\* a pair with a flagged column and a payload column
C4_Witness ==
    /\ Generated
    /\ \E s \in DOMAIN file.sources : \E t \in attribute_targets(file.sources[s]) :
        /\ multiactive_columns(file.sources[s], t) # {}
        /\ \E f \in files_of("ma_sat.sql") :
            f.content.target_name = t /\ f.content.payload_columns # <<>>

\* the entity-type targets of the document
entities_of(doc) == {doc.targets[i].name : i \in {j \in DOMAIN doc.targets :
                                                     doc.targets[j].type = "entity"}}

\* some column of some source carries an EntityKey connection whose target is e
named_by_a_key(doc, e) ==
    \E s \in DOMAIN doc.sources : \E col \in Range(doc.sources[s].columns) :
        \E c \in Range(canonical(doc.sources[s], col)) :
            conn_attribute_of(c) = "" /\ conn_target_name(c) = e

flagged_no_source(v, e) == entity_no_source_message(e) \in Range(v.warnings)

has_hub(e) == \E f \in files_of("hub.sql") : f.content.entity_name = e

unconnected_columns(source) ==
    {col.name : col \in {k \in Range(source.columns) : canonical(source, k) = <<>>}}

\* every column name a stage context mentions
stage_columns(content) ==
    {content.derived_columns[i].v : i \in DOMAIN content.derived_columns}
    \cup UNION {Range(content.hashed_columns[i].v) : i \in DOMAIN content.hashed_columns}
    \cup UNION {Range(content.hashdiff_columns[i].v) : i \in DOMAIN content.hashdiff_columns}

\* C8: every column whose canonical connection list is empty gets a
\* column_no_connection warning and no error from validate(), and is in no
\* derived, hashed or hashdiff mapping of the stage context of its source.
C8_ColumnNoConnection ==
    file.state = "ok" =>
        \A s \in DOMAIN file.sources : \A col \in unconnected_columns(file.sources[s]) :
            LET msg == column_no_connection_message(file.sources[s].name, col)
                checked(v) == /\ v.success
                              /\ msg \in Range(v.warnings)
                              /\ \A m \in Range(v.errors) : m.message # msg.message
            IN /\ validation # None => checked(validation)
               /\ ret.call = "validate" => checked(ret.result)
               /\ \A f \in files_of("stage.sql") :
                    f.content.source_name = file.sources[s].name =>
                        col \notin stage_columns(f.content)

\* an unconnected column beside a connected one, validated and staged
C8_Witness ==
    /\ Generated
    /\ \E s \in DOMAIN file.sources :
        /\ \E col \in Range(file.sources[s].columns) :
             /\ Has(col, "meta") /\ col.name \in unconnected_columns(file.sources[s])
        /\ \E f \in files_of("stage.sql") :
             f.content.source_name = file.sources[s].name /\ stage_columns(f.content) # {}

\* C10: for the sample project (entity customer, source stg_customers with
\* customer_id as its key and customer_name as its attribute) generate()
\* succeeds with a non-empty file list, the stage context is exactly
\* derived_columns = {customer_id: customer_id}, hashed_columns =
\* {customer_hk: [customer_id]}, hashdiff_columns = {customer: [customer_name]},
\* and the hub of customer lists the stage of stg_customers.
C10_SampleProject ==
    file = SampleProject /\ pc = "idle" /\ ret.call = "generate" =>
        /\ ret.success
        /\ ret.files # <<>>
        /\ \E f \in fs :
            /\ f.path = "stage/stg_stg_customers.sql"
            /\ f.path \in Range(ret.files)
            /\ f.content.source_name = "stg_customers"
            /\ f.content.derived_columns = <<[k |-> "customer_id", v |-> "customer_id"]>>
            /\ f.content.hashed_columns = <<[k |-> "customer_hk", v |-> <<"customer_id">>]>>
            /\ f.content.hashdiff_columns = <<[k |-> "customer", v |-> <<"customer_name">>]>>
        /\ \E f \in fs :
            /\ f.path = "hub/hub_customer.sql"
            /\ f.path \in Range(ret.files)
            /\ f.content.entity_name = "customer"
            /\ f.content.source_models = <<get_stage_ref("stg_customers")>>

C10_Witness == file = SampleProject /\ Generated

Rank(p) ==
    CASE p = "idle" -> 0
      [] p = "validate" -> 1
      [] p = "cleanup" -> 2
      [] p = "stage" -> 3
      [] p = "hub" -> 4
      [] p = "link" -> 5
      [] p = "sat" -> 6

\* C5: generate() is one linear pass, read, validate, clean, stage, hub, link,
\* satellite, no step twice; nothing is deleted, created or emitted before
\* validation has completed without an error; an error-severity message ends
\* the pass with failure, an empty file list and the output untouched; with
\* warnings only the pass goes on, and its result is the one of a run on the
\* same input that had other warnings or none.
C5_LinearPass ==
    [][ /\ pc' # pc => (pc' = "idle" \/ Rank(pc') = Rank(pc) + 1)
        /\ (fs' # fs \/ dirs' # dirs \/ generated_files' \notin {generated_files, <<>>}) =>
              /\ Rank(pc) >= 2
              /\ validation # None /\ validation.errors = <<>>
        /\ (pc = "validate" /\ validation'.errors # <<>>) =>
              /\ pc' = "idle"
              /\ ret'.call = "generate" /\ ~ret'.success /\ ret'.files = <<>>
              /\ fs' = fs /\ dirs' = dirs
        /\ (pc = "validate" /\ validation'.errors = <<>>) => pc' = "cleanup"
        /\ (pc = "sat" /\ pc' = "idle" /\ ret'.success) =>
              /\ ret'.call = "generate" /\ ret'.files = generated_files'
              /\ (first # None /\ first[1].file = file
                    /\ first[1].warnings # validation.warnings) =>
                     fs' = first[1].fs /\ ret'.files = first[1].files
      ]_vars

\* a generate() blocked by errors, the artifacts of an earlier run still there
C5_Witness ==
    /\ pc = "idle" /\ ret.call = "generate" /\ ~ret.success
    /\ validation # None /\ validation.errors # <<>>
    /\ fs # {}
    /\ first # None /\ first[1].file = file

\* what the discovered rules return for the document, rule by rule
rule_messages(doc, rules) ==
    [i \in DOMAIN rules |-> rule_validate(rules[i], build_validation_context(doc))]

\* every discovered rule returns its messages
no_rule_raises == \A i \in DOMAIN validator_classes : ~rule_raises(validator_classes[i])

\* a validation result that lost nothing
complete(v) ==
    LET returned == rule_messages(file, validator_classes)
    IN /\ v.success
       /\ v.invoked = [i \in DOMAIN validator_classes |-> validator_classes[i].kind]
       /\ \A i \in DOMAIN returned : \A m \in Range(returned[i]) :
            /\ m \in Range(v.messages)
            /\ m.type = "error" => m \in Range(v.errors)

C9_HistoryIndependent ==
    [][ (pc = "sat" /\ pc' = "idle" /\ ret'.success /\ first # None
            /\ first[1].file = file) =>
            /\ fs' = first[1].fs
            /\ ret'.files = first[1].files
      ]_vars

\* about to finish a run on the first input again, after a run on the
\* document with its columns in the opposite order
C9_Witness ==
    /\ pc = "sat"
    /\ first # None /\ first[1].file = file /\ first[1].other_input
    /\ reverse_columns(file) # file
    /\ \E f \in files_of("stage.sql") : Len(f.content.derived_columns) > 1

\* the raw columns of the document, in document order
raw_columns(doc) == Flatten([s \in DOMAIN doc.sources |-> doc.sources[s].columns])

meta_of(col) == IF Has(col, "meta") THEN col.meta ELSE EmptyDict

C12_ConfigFailure ==
    [][ file.state # "ok" =>
          /\ pc' = "idle"
          /\ fs' = fs /\ dirs' = dirs
          /\ validation' \in {validation, None}
          /\ generated_files' \in {generated_files, <<>>}
          /\ (ret' # ret /\ ret'.call = "read") =>
                /\ ~ret'.result.success
                /\ ret'.result.error # ""
                /\ ~Has(ret'.result, "data")
                /\ self_data' = self_data
          /\ (ret' # ret /\ ret'.call = "generate") =>
                /\ ~ret'.success
                /\ ret'.error # ""
                /\ ret'.files = <<>>
                /\ validation' = None
      ]_vars

\* generate() has failed on a lost document; the artifacts of an earlier run
\* are still there
C12_Witness ==
    /\ file.state \in {"missing", "malformed"}
    /\ pc = "idle" /\ ret.call = "generate" /\ ~ret.success
    /\ fs # {} /\ "stage" \in dirs

\* C13: when generate() has failed after a validation without errors, it has
\* returned an empty file list and the output holds exactly the artifacts
\* that were there when it was called: nothing written, nothing deleted.
C13_FailureLeavesOutput ==
    (/\ pc = "idle" /\ ret.call = "generate" /\ ~ret.success
     /\ validation # None /\ validation.errors = <<>>) =>
        /\ ret.files = <<>>
        /\ fs = before

\* C14: in every stage artifact every list of hashed_columns is free of
\* duplicates: a column stands once in an entity group, in a role group and in
\* the combined group of a relation, also when several EntityKey connections
\* of the column resolve to the same group.
C14_HashedColumnsDeduplicated ==
    \A f \in files_of("stage.sql") :
        \A i \in DOMAIN f.content.hashed_columns :
            Unique(f.content.hashed_columns[i].v) = f.content.hashed_columns[i].v

\* the key an EntityKey connection resolves to: an entity target, or a
\* relation with a role entity and, for a repeated role, a slot
keys_of(targets_by_name, c) ==
    LET target_name == conn_target_name(c)
        target_info == target_info_of(targets_by_name, target_name)
        entities == target_entities_of(target_info)
        entity_name == conn_entity_name(c)
    IN IF target_name = "" THEN {}
       ELSE IF target_type_of(target_info) = "entity"
       THEN {[target |-> target_name, entity |-> "", slot |-> -1]}
       ELSE IF target_type_of(target_info) = "relation" /\ entity_name # ""
                /\ entity_name \in Range(entities)
       THEN {[target |-> target_name, entity |-> entity_name,
              slot |-> IF Count(entities, entity_name) > 1 /\ Has(c, "entity_index")
                       THEN c.entity_index ELSE -1]}
       ELSE {}

\* the keys the connections of a source resolve to
source_keys(doc, source) ==
    UNION {keys_of(build_targets_by_name(doc.targets), c) :
              c \in UNION {Range(canonical(source, col)) : col \in Range(source.columns)}}

\* C15: in every stage artifact the connections of the source that resolve to
\* different keys have different aliases and different hash-key groups, and the
\* combined group of a relation is the group of no key: derived_columns has one
\* alias per key, hashed_columns one group per key and one per relation keyed.
C15_NamesCollisionFree ==
    \A f \in files_of("stage.sql") : \A i \in DOMAIN file.sources :
        f.content.source_name = file.sources[i].name =>
            LET keys == source_keys(file, file.sources[i])
                relations == {k.target : k \in {x \in keys : x.entity # ""}}
            IN /\ Len(f.content.derived_columns) = Cardinality(keys)
               /\ Len(f.content.hashed_columns) = Cardinality(keys) + Cardinality(relations)

\* the connections of a source with the column that carries each
source_connections(source) ==
    UNION {{[column |-> col.name, conn |-> c] : c \in Range(canonical(source, col))} :
              col \in Range(source.columns)}

\* C16: in every stage artifact, a connection to a relation R whose role
\* entity E stands more than once in R.entities has the alias R_E_seq_id and
\* the group R_E_seq_hk with seq = entity_index + 1 between 1 and the number
\* of occurrences of E, and the artifact has no unsuffixed alias R_E_id.
C16_RepeatedRoleSuffixed ==
    \A f \in files_of("stage.sql") : \A i \in DOMAIN file.sources :
        f.content.source_name = file.sources[i].name =>
            \A r \in relations_of(file) : \A cc \in source_connections(file.sources[i]) :
                LET E == conn_entity_name(cc.conn)
                    occurrences == Count(r.entities, E)
                IN (conn_target_name(cc.conn) = r.name /\ occurrences > 1) =>
                      /\ ~DictHas(f.content.derived_columns, r.name \o "_" \o E \o "_id")
                      /\ Has(cc.conn, "entity_index")
                      /\ \E seq \in 1..occurrences :
                            LET key_name == r.name \o "_" \o E \o "_" \o ToString(seq)
                            IN /\ seq = cc.conn.entity_index + 1
                               /\ DictHas(f.content.derived_columns, key_name \o "_id")
                               /\ DictHas(f.content.hashed_columns, key_name \o "_hk")
                               /\ cc.column \in Range(DictGet(f.content.hashed_columns,
                                                               key_name \o "_hk"))

\* a connection to a relation that names a role entity the relation has not
unresolvable(doc, c) ==
    \E r \in relations_of(doc) :
        /\ conn_target_name(c) = r.name
        /\ conn_entity_name(c) # ""
        /\ conn_entity_name(c) \notin Range(r.entities)

has_unresolvable(doc, source) ==
    \E cc \in source_connections(source) : unresolvable(doc, cc.conn)

\* the canonical columns of a source without their unresolvable connections
resolvable_columns(doc, source) ==
    [i \in DOMAIN source.columns |->
        LET col == read_column(source.name, source.columns[i])
        IN [col EXCEPT !.target = SelectSeq(@, LAMBDA c : ~unresolvable(doc, c))]]

\* C17: a generate() over a source with a connection to a relation whose
\* entity_name is not among the relation's entities succeeds and writes the
\* stage artifact of the source, and the context of that artifact is the one
\* derived from the source without such connections: they add no alias, no
\* group and nothing to the relation's combined group.
C17_UnresolvableSkipped ==
    file.state = "ok" =>
        \A i \in DOMAIN file.sources :
            has_unresolvable(file, file.sources[i]) =>
                /\ (pc = "idle" /\ ret.call = "generate") =>
                      /\ ret.success
                      /\ \E f \in files_of("stage.sql") :
                            f.content.source_name = file.sources[i].name
                /\ \A f \in files_of("stage.sql") :
                      f.content.source_name = file.sources[i].name =>
                          f.content = StageGenerator_render_sql(
                                          file.sources[i].name,
                                          resolvable_columns(file, file.sources[i]),
                                          build_targets_by_name(file.targets))

\* a column with an unresolvable connection beside a key the stage derived
C17_Witness ==
    /\ Generated
    /\ \E i \in DOMAIN file.sources :
          /\ has_unresolvable(file, file.sources[i])
          /\ \E f \in files_of("stage.sql") :
                /\ f.content.source_name = file.sources[i].name
                /\ f.content.derived_columns # <<>>

\* the attribute artifacts, ordinary and multiactive
sat_files == files_of("sat.sql") \cup files_of("ma_sat.sql")

\* the columns of a source with an EntityKey connection for target t
key_columns(source, t) ==
    {i \in DOMAIN source.columns :
        \E c \in Range(canonical(source, source.columns[i])) :
            conn_attribute_of(c) = "" /\ conn_target_name(c) = t}

\* C18: the driving key column of every attribute artifact of (S, T) is the
\* first column of S with an EntityKey connection for target T, and none when
\* S has no such column.
C18_DrivingKeyColumn ==
    \A f \in sat_files : \A i \in DOMAIN file.sources :
        f.content.source_model = get_stage_ref(file.sources[i].name) =>
            LET keyed == key_columns(file.sources[i], f.content.target_name)
            IN f.content.entity_key_column =
                  IF keyed = {} THEN <<>>
                  ELSE <<file.sources[i].columns[CHOOSE k \in keyed :
                                                     \A j \in keyed : k <= j].name>>

\* C19: for every attribute artifact of (S, T), ordinary or multiactive, the
\* stage artifact of S has a hashdiff group T and its column list is the
\* payload column list of the attribute artifact.
C19_HashdiffIsPayload ==
    \A f \in sat_files :
        \E g \in files_of("stage.sql") :
            /\ get_stage_ref(g.content.source_name) = f.content.source_model
            /\ DictHas(g.content.hashdiff_columns, f.content.target_name)
            /\ DictGet(g.content.hashdiff_columns, f.content.target_name)
                  = f.content.payload_columns

\* the position set the context builder holds for (source, relation)
recorded_positions(ctx, source_name, relation) ==
    LET inner == DictGet(ctx.source_relation_entity_positions, source_name)
    IN IF DictHas(inner, relation) THEN DictGet(inner, relation) ELSE {}

\* the (entity_name, entity_index) pairs of the canonical EntityKey
\* connections of the columns of a source to a relation
canonical_positions(source, relation) ==
    {position_of(cc.conn) :
        cc \in {x \in source_connections(source) :
                  /\ conn_attribute_of(x.conn) = ""
                  /\ conn_target_name(x.conn) = relation
                  /\ conn_entity_name(x.conn) # ""}}

\* C20: once the configuration has been validated, the position set the
\* context builder recorded for every source S and relation R is the set of
\* (entity_name, entity_index) pairs of the canonical EntityKey connections
\* of the columns of S to R, in whichever of the three shapes the columns
\* are annotated.
C20_PositionsAreCanonical ==
    (file.state = "ok" /\ validation # None) =>
        \A i \in DOMAIN file.sources : \A r \in relations_of(file) :
            recorded_positions(build_validation_context(file), file.sources[i].name, r.name)
                = canonical_positions(file.sources[i], r.name)

\* an EntityKey connection to a relation-type target that names no role entity
nameless_relation_key(doc, c) ==
    /\ conn_attribute_of(c) = ""
    /\ conn_entity_name(c) = ""
    /\ \E r \in relations_of(doc) : conn_target_name(c) = r.name

\* the columns with such a connection and no other connection to a target or
\* an attribute target, as (source, column) indexes
nameless_only_columns(doc) ==
    {sc \in UNION {{<<i, j>> : j \in DOMAIN doc.sources[i].columns} : i \in DOMAIN doc.sources} :
        LET target == context_target(doc.sources[sc[1]].columns[sc[2]])
        IN /\ \E c \in Range(target) : nameless_relation_key(doc, c)
           /\ \A c \in Range(target) :
                 \/ nameless_relation_key(doc, c)
                 \/ conn_attribute_of(c) = "" /\ conn_target_name(c) = ""}

\* the document with every such connection taken out of its column
without_nameless(doc) ==
    LET keep(c) == ~nameless_relation_key(doc, c)
        pruned(col) ==
            IF Has(col, "target") THEN [col EXCEPT !.target = SelectSeq(@, keep)]
            ELSE IF Has(col, "meta") /\ Has(col.meta, "target")
            THEN [col EXCEPT !.meta.target = SelectSeq(@, keep)]
            ELSE col
    IN [doc EXCEPT !.sources =
          [i \in DOMAIN @ |-> [@[i] EXCEPT !.columns = [j \in DOMAIN @ |-> pruned(@[j])]]]]

\* C21: once the configuration has been validated, the EntityKey connections
\* to a relation that name no role entity have added nothing to the entities
\* having a source, to the connected-entity set of any source or to any
\* position set (the three are those of the document without them), while
\* every column that carries nothing else still counts as connected.
C21_NamelessRelationKey ==
    (file.state = "ok" /\ validation # None) =>
        LET ctx == build_validation_context(file)
            pruned == build_validation_context(without_nameless(file))
        IN /\ ctx.entity_sources = pruned.entity_sources
           /\ ctx.source_entity_connections = pruned.source_entity_connections
           /\ ctx.source_relation_entity_positions = pruned.source_relation_entity_positions
           /\ validation.summary.columns_with_connections
                 = pruned.columns_with_connections + Cardinality(nameless_only_columns(file))

\* a validated document with a column that carries only such a connection
C21_Witness ==
    /\ file.state = "ok" /\ validation # None
    /\ nameless_only_columns(file) # {}
    /\ validation.summary.columns_with_connections > 0

\* the canonical columns of a source, as the generators get them
canonical_columns(source) ==
    [i \in DOMAIN source.columns |-> read_column(source.name, source.columns[i])]

\* the sources with a role connection whose target_name is the relation, in
\* document order
sources_of_relation(doc, relation) ==
    SelectSeq(doc.sources,
              LAMBDA src : \E cc \in source_connections(src) :
                  /\ conn_attribute_of(cc.conn) = ""
                  /\ conn_target_name(cc.conn) = relation
                  /\ conn_entity_name(cc.conn) # "")

\* C22: for every relation R, the link artifact of R lists the stages of the
\* sources with a role connection whose target_name is R, and of no other
\* source; the grouping of a source has a column under an entity only for
\* such a connection of that column; a relation without such a source has no
\* link artifact.
C22_RelationGroupingExact ==
    file.state = "ok" =>
        \A r \in relations_of(file) :
            LET contributing == sources_of_relation(file, r.name)
                links == {f \in files_of("link.sql") : f.content.link_name = r.name}
            IN /\ \A f \in links :
                     /\ contributing # <<>>
                     /\ f.content.source_models =
                           Unique([i \in DOMAIN contributing |->
                                      get_stage_ref(contributing[i].name)])
               /\ \A i \in DOMAIN file.sources :
                     LET grouping == link_entity_columns(r.name,
                                                         canonical_columns(file.sources[i]))
                     IN \A g \in DOMAIN grouping : \A col \in Range(grouping[g].v) :
                           \E cc \in source_connections(file.sources[i]) :
                               /\ cc.column = col
                               /\ conn_target_name(cc.conn) = r.name
                               /\ conn_entity_name(cc.conn) = grouping[g].k

\* a source keyed to rel2 and to the entity A only, and the link of rel2
\* written without one for rel
C22_Witness ==
    /\ Generated /\ file.state = "ok" /\ file.targets = TwoRelationTargets
    /\ sources_of_relation(file, "rel") = <<>>
    /\ \E f \in files_of("link.sql") : f.content.link_name = "rel2"
    /\ \E i \in DOMAIN file.sources : \E cc \in source_connections(file.sources[i]) :
          cc.conn = EntityKey("A")

\* the sources with an EntityKey connection whose target_name is the entity,
\* in document order
sources_of_entity(doc, entity) ==
    SelectSeq(doc.sources,
              LAMBDA src : \E cc \in source_connections(src) :
                  conn_target_name(cc.conn) = entity)

\* the entity-type targets of the document, by name
entity_names(doc) ==
    {doc.targets[i].name : i \in {j \in DOMAIN doc.targets : doc.targets[j].type = "entity"}}

\* C23: the entity artifact of an entity lists the stage of every source with
\* a column keyed to that entity, once each and in the order of the sources,
\* however many columns of a source are keyed to it; after a successful
\* generate() every entity with such a source has its artifact.
C23_EntityGroupingUnique ==
    file.state = "ok" =>
        \A e \in entity_names(file) :
            LET contributing == sources_of_entity(file, e)
                hubs == {f \in files_of("hub.sql") : f.content.entity_name = e}
            IN /\ \A f \in hubs :
                     /\ contributing # <<>>
                     /\ f.content.source_models =
                           [i \in DOMAIN contributing |-> get_stage_ref(contributing[i].name)]
               /\ (Generated /\ contributing # <<>>) => hubs # {}

\* an entity artifact of a source with two columns keyed to the entity
C23_Witness ==
    /\ Generated /\ file.state = "ok"
    /\ \E f \in files_of("hub.sql") :
          /\ Len(f.content.source_models) = 1
          /\ \E i \in DOMAIN file.sources :
                Cardinality({cc.column : cc \in {x \in source_connections(file.sources[i]) :
                                conn_target_name(x.conn) = f.content.entity_name}}) > 1

\* the stage artifact of the source a stage reference stands for
stage_of_ref(ref) ==
    {g \in files_of("stage.sql") : get_stage_ref(g.content.source_name) = ref}

\* the link artifact lists the stage, and the stage has the combined group
link_source_has_combined_key ==
    \A f \in files_of("link.sql") : \A ref \in Range(f.content.source_models) :
        \E g \in stage_of_ref(ref) :
            /\ DictHas(g.content.hashed_columns, f.content.link_name \o "_hk")
            /\ DictGet(g.content.hashed_columns, f.content.link_name \o "_hk") # <<>>

\* C24: whenever the link artifact of relation R lists the stage of source S,
\* the stage artifact of S has a non-empty combined group R_hk, and for every
\* role slot of R that a column of S fills it has a group named as the
\* foreign key the link lists for that slot.
C24_LinkSourcesResolved ==
    /\ link_source_has_combined_key
    /\ \A f \in files_of("link.sql") : \A ref \in Range(f.content.source_models) :
          \A r \in relations_of(file) : \A s \in DOMAIN file.sources :
              (r.name = f.content.link_name /\ get_stage_ref(file.sources[s].name) = ref) =>
                  \A i \in DOMAIN r.entities : \A cc \in source_connections(file.sources[s]) :
                      fills_slot(cc.conn, r, i) =>
                          \E g \in stage_of_ref(ref) :
                              DictHas(g.content.hashed_columns, f.content.fk_columns[i])

\* the name a key is known by: T for an entity, R_E or R_E_seq for a role
key_name_of(key) ==
    IF key.entity = "" THEN key.target
    ELSE IF key.slot = -1 THEN key.target \o "_" \o key.entity
    ELSE key.target \o "_" \o key.entity \o "_" \o ToString(key.slot + 1)

\* the columns of a source with a connection that resolves to the key, in
\* column order
columns_of_key(doc, source, key) ==
    LET resolves(col) == \E c \in Range(canonical(source, col)) :
                            key \in keys_of(build_targets_by_name(doc.targets), c)
        cols == SelectSeq(source.columns, resolves)
    IN [i \in DOMAIN cols |-> cols[i].name]

\* C25: in every stage artifact each alias K_id comes with the group K_hk and
\* each group but the combined group of a relation comes with the alias of
\* the same key; the aliased column is the last column of the source that
\* resolves to the key, and the group holds every column that does.
C25_AliasesMatchGroups ==
    \A f \in files_of("stage.sql") : \A i \in DOMAIN file.sources :
        f.content.source_name = file.sources[i].name =>
            LET src == file.sources[i]
                keys == source_keys(file, src)
                derived == f.content.derived_columns
                hashed == f.content.hashed_columns
                combined == {r.name \o "_hk" : r \in relations_of(file)}
            IN /\ \A d \in DOMAIN derived : \E key \in keys :
                     derived[d].k = key_name_of(key) \o "_id"
               /\ \A h \in DOMAIN hashed :
                     \/ \E key \in keys : hashed[h].k = key_name_of(key) \o "_hk"
                     \/ hashed[h].k \in combined
               /\ \A key \in keys :
                     LET cols == columns_of_key(file, src, key)
                         K == key_name_of(key)
                     IN /\ DictHas(derived, K \o "_id") /\ DictHas(hashed, K \o "_hk")
                        /\ DictGet(derived, K \o "_id") \in Range(DictGet(hashed, K \o "_hk"))
                        /\ Range(cols) \subseteq Range(DictGet(hashed, K \o "_hk"))
                        /\ (\A other \in keys : key_name_of(other) = K => other = key) =>
                              /\ DictGet(derived, K \o "_id") = cols[Len(cols)]
                              /\ Range(DictGet(hashed, K \o "_hk")) = Range(cols)

\* two columns of a source keyed to the same entity, and the stage written
C25_Witness ==
    \E f \in files_of("stage.sql") : \E i \in DOMAIN file.sources :
        /\ f.content.source_name = file.sources[i].name
        /\ \E key \in source_keys(file, file.sources[i]) :
              Len(columns_of_key(file, file.sources[i], key)) > 1

\* C26: when the validation step of generate() itself fails (validate()
\* returns success = False), generate() returns failure at once: the output
\* folders are not cleaned and no artifact is written.
C26_FailedValidationBlocks ==
    [][ (pc = "validate" /\ ~validation'.success) =>
              /\ pc' = "idle"
              /\ ret'.call = "generate" /\ ~ret'.success
              /\ fs' = fs /\ dirs' = dirs
      ]_vars

\* C27: after a validation that ran, total_columns is the number of columns
\* of all sources, columns_with_connections lies between 0 and total_columns,
\* and the column_no_connection warnings are as many as the columns that are
\* not counted as connected.
C27_CountersAgree ==
    (file.state = "ok" /\ validation # None /\ validation.success) =>
        LET summary == validation.summary
            warned == SelectSeq(validation.warnings,
                                LAMBDA m : m.code = "column_no_connection")
        IN /\ summary.total_columns = column_count(file.sources)
           /\ 0 <= summary.columns_with_connections
           /\ summary.columns_with_connections <= summary.total_columns
           /\ Len(warned) = summary.total_columns - summary.columns_with_connections

\* the names of the declared targets
target_names(doc) == {doc.targets[i].name : i \in DOMAIN doc.targets}

\* an EntityKey connection whose target_name is no declared target
undeclared_key(doc, c) ==
    /\ conn_attribute_of(c) = ""
    /\ conn_target_name(c) # ""
    /\ conn_target_name(c) \notin target_names(doc)

\* C28: for every EntityKey connection of a column to a name X that is not a
\* declared target, the stage artifact of the source has the alias X_id and
\* the group X_hk with the column in it, the context builder has X among the
\* entities the source connects to and among the entities having a source,
\* no entity artifact is written for X, and generate() succeeds.
C28_UndeclaredTargetIsEntity ==
    file.state = "ok" =>
        \A i \in DOMAIN file.sources : \A cc \in source_connections(file.sources[i]) :
            undeclared_key(file, cc.conn) =>
                LET X == conn_target_name(cc.conn)
                    stages == {f \in files_of("stage.sql") :
                                  f.content.source_name = file.sources[i].name}
                    ctx == build_validation_context(file)
                IN /\ \A f \in stages :
                         /\ DictHas(f.content.derived_columns, X \o "_id")
                         /\ DictHas(f.content.hashed_columns, X \o "_hk")
                         /\ cc.column \in Range(DictGet(f.content.hashed_columns, X \o "_hk"))
                   /\ validation # None =>
                         /\ validation.success
                         /\ X \in ctx.entity_sources
                         /\ X \in DictGet(ctx.source_entity_connections, file.sources[i].name)
                   /\ \A f \in files_of("hub.sql") : f.content.entity_name # X
                   /\ (pc = "idle" /\ ret.call = "generate") => (ret.success /\ stages # {})

\* a generate() over a column keyed to an undeclared name
C28_Witness ==
    /\ Generated /\ file.state = "ok"
    /\ \E i \in DOMAIN file.sources : \E cc \in source_connections(file.sources[i]) :
          /\ undeclared_key(file, cc.conn)
          /\ \E f \in files_of("stage.sql") :
                DictHas(f.content.derived_columns, conn_target_name(cc.conn) \o "_id")

\* C29: after a successful generate() the returned file list names no path
\* twice and every artifact written is still there, none overwritten by
\* another: the output holds as many artifacts as the list has entries.
C29_OnePathPerArtifact ==
    Generated =>
        /\ \A i, j \in DOMAIN ret.files : ret.files[i] = ret.files[j] => i = j
        /\ Cardinality(fs) = Len(ret.files)

\* C30: every stage reference listed by an entity artifact or a relation
\* artifact, and the stage reference of every attribute artifact, is the
\* reference of a source whose stage artifact is in the output of the same
\* generate().
C30_StageReferencesResolve ==
    /\ \A f \in files_of("hub.sql") \cup files_of("link.sql") :
          \A ref \in Range(f.content.source_models) : stage_of_ref(ref) # {}
    /\ \A f \in sat_files : stage_of_ref(f.content.source_model) # {}

\* a successful generate() with an attribute artifact of a source that has
\* no key connection, and one with an entity artifact beside an attribute
\* artifact
C30_Witness ==
    /\ Generated /\ file.state = "ok"
    /\ sat_files # {}
    /\ \/ files_of("hub.sql") # {}
       \/ \E i \in DOMAIN file.sources :
             /\ \E f \in sat_files :
                   f.content.source_model = get_stage_ref(file.sources[i].name)
             /\ \A cc \in source_connections(file.sources[i]) :
                   conn_attribute_of(cc.conn) # ""

============================================================================
